---- MODULE Spec2Model ----
(***************************************************************************)
(* A model of summer's App (app.go): the admission gate of ServeHTTP, the  *)
(* dispatch wrapper of HandleFunc and the liveness / readiness handlers of *)
(* the debug mux with their cascade counter.                               *)
(*                                                                         *)
(* One task per inbound request (net/http runs ServeHTTP on a goroutine    *)
(* per request).  A step of the model is one shared-memory access of a     *)
(* task (a channel receive or send, an atomic load / add / store) together *)
(* with the task-local code around it, or one call out to user code (the   *)
(* handler fn, Context.Perform, the registered checkers).                  *)
(***************************************************************************)
EXTENDS Integers, Sequences, FiniteSets, TLC

\* ---------------------------------------------------------------- bounds
NumReqs == 2            \* request tasks alive at the same time
MaxLog == 3             \* consecutive failed readiness evaluations

Reqs == 1..NumReqs

\* Option values tried for WithConcurrency / WithReadinessCascade: disabled
\* (negative, zero) and enabled ones.  A pool smaller than the number of
\* tasks keeps the gate contended; a threshold below MaxLog can be exceeded.
ConcurrencyOpts == -1..(NumReqs - 1)
CascadeOpts == -1..(MaxLog - 1)

\* The options New starts from.
DefaultConcurrency == 128
DefaultReadinessCascade == 5

\* Names tried for CheckFunc, and what a CheckerFunc may return: nil or an
\* error with some text.
CheckNames == {"db"}
NoErr == "<nil>"
ErrTexts == {"down"}

\* ------------------------------------------------------ paths and statuses
\* A URL path is the sequence of its segments: /debug/ready is
\* <<"debug", "ready">>.
DebugPathPrefix == <<"debug">>
DebugPathAlive == <<"debug", "alive">>
DebugPathReady == <<"debug", "ready">>
DebugPathMetrics == <<"debug", "metrics">>
PatternApi == <<"api">>

\* The patterns an application registers and the paths clients ask for (a
\* path asked for before its pattern is registered gets the mux's 404).
Patterns == {PatternApi}
Paths == {DebugPathAlive, DebugPathReady, DebugPathMetrics, PatternApi}

StatusOK == 200
StatusNotFound == 404
StatusInternalServerError == 500

\* Mutant: the whole path is compared with the prefix.
HasPrefixWhole(s, prefix) == s = prefix

\* strings.HasPrefix
HasPrefix(s, prefix) ==
    /\ Len(prefix) <= Len(s)
    /\ SubSeq(s, 1, Len(prefix)) = prefix

VARIABLES
    opts,               \* a.opts: [concurrency, readinessCascade]
    checkers,           \* a.checkers: the registered names
    mux,                \* a.mux: the registered patterns
    cc,                 \* a.cc: [nil, cap, len], a channel of struct{}
    readinessFailed,    \* a.readinessFailed
    task,               \* per request task: its position and locals
    readyLog,           \* history: the failed flags of the latest counter updates, in
                        \* order: a run of consecutive failures and the success that
                        \* ended it, if one did
    flat                \* a call of flattenRequest(m, req): its arguments, then its
                        \* results

vars == <<opts, checkers, mux, cc, readinessFailed, task, readyLog, flat>>

\* --------------------------------------------------------- health registry
\* The orders in which `range a.checkers` may visit the keys of the map.
RECURSIVE Perms(_)
Perms(S) ==
    IF S = {} THEN {<<>>}
    ELSE UNION {{<<x>> \o p : p \in Perms(S \ {x})} : x \in S}

\* One pass over the registry: the keys in the order the map yields them,
\* each with what its CheckerFunc returns on this call.
Runs(S) ==
    UNION {{[i \in 1..Len(p) |-> [k |-> p[i], err |-> o[i]]] :
                o \in [1..Len(p) -> {NoErr} \cup ErrTexts]} : p \in Perms(S)}

\* Mutant: the loop ends at the first checker that returns an error.
RECURSIVE checkLoopStop(_, _, _, _)
checkLoopStop(run, i, sb, failed) ==
    IF i > Len(run) THEN [sb |-> sb, failed |-> failed]
    ELSE LET sep == IF Len(sb) > 0 THEN <<"\n">> ELSE <<>>
             head == sb \o sep \o <<run[i].k, ": ">>
         IN  IF run[i].err = NoErr
             THEN checkLoopStop(run, i + 1, head \o <<"OK">>, failed)
             ELSE [sb |-> head \o <<run[i].err>>, failed |-> TRUE]

\* The loop of executeCheckers from its i-th iteration on; sb is the content
\* of the strings.Builder as the sequence of the strings written to it.
RECURSIVE checkLoop(_, _, _, _)
checkLoop(run, i, sb, failed) ==
    IF i > Len(run) THEN [sb |-> sb, failed |-> failed]
    ELSE LET sep == IF Len(sb) > 0 THEN <<"\n">> ELSE <<>>
             head == sb \o sep \o <<run[i].k, ": ">>
         IN  IF run[i].err = NoErr
             THEN checkLoop(run, i + 1, head \o <<"OK">>, failed)
             ELSE checkLoop(run, i + 1, head \o <<run[i].err>>, TRUE)

executeCheckers(run) ==
    LET out == checkLoop(run, 1, <<>>, FALSE)
    IN  [r |-> IF out.sb = <<>> THEN <<"OK">> ELSE out.sb, failed |-> out.failed]

\* ------------------------------------------------------------ request tasks
NoResp == [status |-> 0, body |-> <<>>]
NoReady == [run |-> <<>>, r |-> <<>>, failed |-> FALSE]

\* No call of flattenRequest is under way.
NoCall == [pc |-> "none"]

\* A task with no request: net/http has not handed it one yet.
Idle ==
    [pc |-> "idle", path |-> <<>>, ctxDone |-> FALSE, held |-> FALSE,
     panicking |-> FALSE, trace |-> <<>>, ready |-> NoReady, resp |-> NoResp]

\* respondText(rw, s, code)
respondText(s, code) == [status |-> code, body |-> s]

\* ------------------------------------------------------------- construction
\* Mutant: the loop stops one token short.
RECURSIVE fillShort(_, _)
fillShort(concurrency, i) ==
    IF i < concurrency - 1 THEN fillShort(concurrency, i + 1) ELSE i

\* The loop that fills the permit pool: i tokens sent so far.
RECURSIVE fill(_, _)
fill(concurrency, i) ==
    IF i < concurrency THEN fill(concurrency, i + 1) ELSE i

\* Mutant: a pool is made for concurrency zero as well.
initializeNonNeg(o) ==
    IF o.concurrency >= 0
    THEN [nil |-> FALSE, cap |-> o.concurrency, len |-> fill(o.concurrency, 0)]
    ELSE [nil |-> TRUE, cap |-> 0, len |-> 0]

\* a.cc after initialize
initialize(o) ==
    IF o.concurrency > 0
    THEN [nil |-> FALSE, cap |-> o.concurrency, len |-> fill(o.concurrency, 0)]
    ELSE [nil |-> TRUE, cap |-> 0, len |-> 0]

\* The state New(cf, opts...) returns the app in: the given options applied,
\* then initialize().
New(o) ==
    /\ opts = o
    /\ checkers = {}
    /\ mux = {}
    /\ cc = initialize(opts)
    /\ readinessFailed = 0
    /\ task = [r \in Reqs |-> Idle]
    /\ readyLog = <<>>

\* New(cf) and New(cf, WithConcurrency(c))
Init ==
    /\ \E c \in ConcurrencyOpts \cup {DefaultConcurrency} :
          New([concurrency |-> c, readinessCascade |-> DefaultReadinessCascade])
    /\ flat = NoCall

\* New(cf, WithConcurrency(c), WithReadinessCascade(n)), with a pool one
\* permit short of the number of tasks
InitCascade ==
    /\ \E n \in CascadeOpts :
          New([concurrency |-> NumReqs - 1, readinessCascade |-> n])
    /\ flat = NoCall

\* New(cf, WithConcurrency(c)) and New(cf, WithConcurrency(c),
\* WithReadinessCascade(n)) with the thresholds that enable cascading: the
\* default and the small ones.
InitThreshold ==
    /\ \E n \in {k \in CascadeOpts : k > 0} \cup {DefaultReadinessCascade} :
          New([concurrency |-> NumReqs - 1, readinessCascade |-> n])
    /\ flat = NoCall

\* ------------------------------------------------------------- registration
CheckFunc(name) ==
    /\ checkers' = checkers \cup {name}
    /\ UNCHANGED <<opts, mux, cc, readinessFailed, task, readyLog, flat>>

\* http.ServeMux.Handle panics on a pattern registered twice
HandleFunc(pattern) ==
    /\ pattern \notin mux
    /\ mux' = mux \cup {pattern}
    /\ UNCHANGED <<opts, checkers, cc, readinessFailed, task, readyLog, flat>>

\* ------------------------------------------------------------ debug handlers
\* Mutant: the threshold is not checked to be positive.
AliveResponseNoGuard(n) ==
    IF n > opts.readinessCascade
    THEN respondText(<<"CASCADED">>, StatusInternalServerError)
    ELSE respondText(<<"OK">>, StatusOK)

\* Mutant: the counter has to exceed the threshold by two.
AliveResponseLate(n) ==
    IF opts.readinessCascade > 0 /\ n > opts.readinessCascade + 1
    THEN respondText(<<"CASCADED">>, StatusInternalServerError)
    ELSE respondText(<<"OK">>, StatusOK)

\* Mutant: the counter has only to reach the threshold.
AliveResponseEarly(n) ==
    IF opts.readinessCascade > 0 /\ n >= opts.readinessCascade
    THEN respondText(<<"CASCADED">>, StatusInternalServerError)
    ELSE respondText(<<"OK">>, StatusOK)

\* The DebugPathAlive handler's answer when the counter reads n.
AliveResponse(n) ==
    IF opts.readinessCascade > 0 /\ n > opts.readinessCascade
    THEN respondText(<<"CASCADED">>, StatusInternalServerError)
    ELSE respondText(<<"OK">>, StatusOK)

\* ServeHTTP of a request for DebugPathAlive: one atomic load, then the answer.
ServeAlive(t, p) ==
    /\ task[t].pc = "idle"
    /\ HasPrefix(p, DebugPathPrefix)
    /\ p = DebugPathAlive
    /\ task' = [task EXCEPT ![t] = [@ EXCEPT !.pc = "done", !.path = p,
                                            !.resp = AliveResponse(readinessFailed)]]
    /\ UNCHANGED <<opts, checkers, mux, cc, readinessFailed, readyLog, flat>>

\* Readiness evaluations begun and not yet finished, and those of them that
\* found a failed check.
Evaluating == {t \in Reqs : task[t].pc = "ready"}

Failing == {t \in Evaluating : task[t].ready.failed}

\* Whether a pass over the registry met a checker that returned an error.
AnyErr(run) == \E i \in DOMAIN run : run[i].err # NoErr

\* The number of failures the history ends with.
RECURSIVE TrailingFails(_)
TrailingFails(log) ==
    IF log = <<>> \/ ~log[Len(log)] THEN 0
    ELSE 1 + TrailingFails(SubSeq(log, 1, Len(log) - 1))

\* The history with one more update: what came before a success is dropped
\* once a later update follows it.
Logged(log, failed) ==
    IF log # <<>> /\ ~log[Len(log)] THEN <<failed>> ELSE Append(log, failed)

\* The longest run of failing evaluations followed: MaxLog, or one more than
\* the threshold where that is larger, so that every threshold tried can be
\* exceeded.
FailCap ==
    IF opts.readinessCascade >= MaxLog THEN opts.readinessCascade + 1 ELSE MaxLog

\* ServeHTTP of a request for DebugPathReady, up to the return of
\* executeCheckers: the checkers have run, the counter is not yet touched.
ServeReady(t, p) ==
    /\ task[t].pc = "idle"
    /\ HasPrefix(p, DebugPathPrefix)
    /\ p = DebugPathReady
    /\ \E run \in Runs(checkers) :
         /\ AnyErr(run) => TrailingFails(readyLog) + Cardinality(Failing) < FailCap
         /\ task' = [task EXCEPT ![t] = [@ EXCEPT !.pc = "ready", !.path = p,
                     !.ready = [run |-> run] @@ executeCheckers(run)]]
    /\ UNCHANGED <<opts, checkers, mux, cc, readinessFailed, readyLog, flat>>

\* Mutant: a passing evaluation leaves the counter alone.
readyCountNoReset(n, failed) == IF failed THEN n + 1 ELSE n

\* Mutant: a passing evaluation takes one failure off the counter.
readyCountDecrement(n, failed) ==
    IF failed THEN n + 1 ELSE IF n > 0 THEN n - 1 ELSE 0

\* Mutant: a load and a store in place of atomic.AddInt64: an increment made
\* while another failing evaluation is in flight is lost.
readyCountRacy(n, failed) ==
    IF failed THEN (IF Cardinality(Failing) > 1 THEN n ELSE n + 1) ELSE 0

\* The counter after the handler's atomic.AddInt64 / atomic.StoreInt64.
readyCount(n, failed) == IF failed THEN n + 1 ELSE 0

\* Mutant: the status is not set on failure.
readyStatusOK(failed) == StatusOK

readyStatus(failed) == IF failed THEN StatusInternalServerError ELSE StatusOK

\* The rest of the DebugPathReady handler: the atomic update and the answer.
ReadyRespond(t) ==
    /\ task[t].pc = "ready"
    /\ readinessFailed' = readyCount(readinessFailed, task[t].ready.failed)
    /\ readyLog' = Logged(readyLog, task[t].ready.failed)
    /\ task' = [task EXCEPT ![t] = [@ EXCEPT !.pc = "done",
                   !.resp = respondText(task[t].ready.r, readyStatus(task[t].ready.failed))]]
    /\ UNCHANGED <<opts, checkers, mux, cc, flat>>

\* ServeHTTP of a request for DebugPathMetrics: handed to promhttp.
ServeMetrics(t, p) ==
    /\ task[t].pc = "idle"
    /\ HasPrefix(p, DebugPathPrefix)
    /\ p = DebugPathMetrics
    /\ task' = [task EXCEPT ![t] = [@ EXCEPT !.pc = "done", !.path = p,
                                            !.resp = respondText(<<"metrics">>, StatusOK)]]
    /\ UNCHANGED <<opts, checkers, mux, cc, readinessFailed, readyLog, flat>>

\* --------------------------------------------------------- admission, dispatch
\* A receive from the buffered channel completes only when a token is in it,
\* a send only when there is room.
\* Mutant: the receive does not wait for a token.
canRecvAlways(ch) == TRUE

canRecv(ch) == ch.len > 0

\* Mutant: the receive leaves the token in the channel.
recvKeep(ch) == ch

recv(ch) == [ch EXCEPT !.len = @ - 1]

canSend(ch) == ch.len < ch.cap

sendLost(ch) == ch

send(ch) == [ch EXCEPT !.len = @ + 1]

\* a.h.ServeHTTP: the mux finds the pattern's handler, which builds the context
\* with a.contextFactory, defers c.Perform() and calls fn(c); a path with no
\* pattern gets the mux's 404 and ServeHTTP is about to return.
dispatch(tk) ==
    IF tk.path \in mux
    THEN [tk EXCEPT !.pc = "handler", !.trace = <<"construct", "invoke">>]
    ELSE [tk EXCEPT !.pc = "unwind", !.resp = respondText(<<"404">>, StatusNotFound)]

\* ServeHTTP of any other request, up to its first blocking point: with a pool
\* it stands at the receive from a.cc, with none it is dispatched at once.
ServeHTTP(t, p) ==
    /\ task[t].pc = "idle"
    /\ ~HasPrefix(p, DebugPathPrefix)
    /\ task' = [task EXCEPT ![t] =
                   IF cc.nil THEN dispatch([@ EXCEPT !.path = p])
                   ELSE [@ EXCEPT !.pc = "wait", !.path = p]]
    /\ UNCHANGED <<opts, checkers, mux, cc, readinessFailed, readyLog, flat>>

\* <-a.cc completes: a token is taken, the release is deferred, the request
\* is dispatched.  The receive looks at nothing but the channel.
Acquire(t) ==
    /\ task[t].pc = "wait"
    /\ canRecv(cc)
    /\ cc' = recv(cc)
    /\ task' = [task EXCEPT ![t] = dispatch([@ EXCEPT !.held = TRUE])]
    /\ UNCHANGED <<opts, checkers, mux, readinessFailed, readyLog, flat>>

\* fn(c) ends, by returning or by panicking: the deferred c.Perform() is next.
Handler(t, panics) ==
    /\ task[t].pc = "handler"
    /\ task' = [task EXCEPT ![t] = [@ EXCEPT !.pc = "perform", !.panicking = panics]]
    /\ UNCHANGED <<opts, checkers, mux, cc, readinessFailed, readyLog, flat>>

\* Mutant: c.Perform() called after fn(c) instead of deferred, so a panic of
\* fn(c) skips it.
finalizeOnReturn(tk, panics) ==
    IF tk.panicking THEN [tk EXCEPT !.pc = "unwind"]
    ELSE [tk EXCEPT !.pc = "unwind", !.trace = Append(@, "finalize"),
                    !.panicking = panics,
                    !.resp = respondText(<<"handled">>, StatusOK)]

\* The task after the deferred c.Perform(): it runs whether fn(c) returned or
\* panicked, and being user code it may panic as well.
finalize(tk, panics) ==
    [tk EXCEPT !.pc = "unwind", !.trace = Append(@, "finalize"),
               !.panicking = @ \/ panics,
               !.resp = respondText(<<"handled">>, StatusOK)]

\* The deferred c.Perform() runs; the wrapper and a.h.ServeHTTP unwind,
\* ServeHTTP's own deferred call is next.
Perform(t, panics) ==
    /\ task[t].pc = "perform"
    /\ task' = [task EXCEPT ![t] = finalize(@, panics)]
    /\ UNCHANGED <<opts, checkers, mux, cc, readinessFailed, readyLog, flat>>

\* Mutant: the send written after a.h.ServeHTTP instead of deferred, so a
\* panic skips it.
releasesOnReturn(tk) == tk.held /\ ~tk.panicking

\* Whether ServeHTTP's deferred send runs for the task: the defer statement
\* was reached exactly when the token was taken, and a deferred call runs on
\* return and on panic alike.
releases(tk) == tk.held

\* ServeHTTP returns or unwinds: the deferred a.cc <- struct{}{} runs (a send
\* into a full channel would block).  A panic goes on to net/http, which
\* drops the connection.
Release(t) ==
    /\ task[t].pc = "unwind"
    /\ IF releases(task[t])
       THEN /\ canSend(cc)
            /\ cc' = send(cc)
       ELSE UNCHANGED cc
    /\ task' = [task EXCEPT ![t] = [@ EXCEPT !.pc = "done", !.held = FALSE,
                   !.resp = IF task[t].panicking THEN NoResp ELSE @]]
    /\ UNCHANGED <<opts, checkers, mux, readinessFailed, readyLog, flat>>

\* ------------------------------------------------------------- the transport
\* The transport cancels the context of a request that is blocked at the
\* receive, the one place where a request waits on the app itself.
Cancel(t) ==
    /\ task[t].pc = "wait"
    /\ ~canRecv(cc)
    /\ ~task[t].ctxDone
    /\ task' = [task EXCEPT ![t] = [@ EXCEPT !.ctxDone = TRUE]]
    /\ UNCHANGED <<opts, checkers, mux, cc, readinessFailed, readyLog, flat>>

\* The task is through with its request and free for the next one.
Return(t) ==
    /\ task[t].pc = "done"
    /\ task' = [task EXCEPT ![t] = Idle]
    /\ UNCHANGED <<opts, checkers, mux, cc, readinessFailed, readyLog, flat>>

\* ------------------------------------------------------- request normalizer
\* A value of the flat map: one string, or a list of strings.
Scalar(x) == [kind |-> "scalar", v |-> <<x>>]
List(vs) == [kind |-> "list", v |-> vs]

\* flattenSlice: the element of a slice of one, else the slice.
flattenSlice(vs) == IF Len(vs) = 1 THEN Scalar(vs[1]) ELSE List(vs)

\* A Content-Type is its type, its subtype and its parameters; the header
\* carries them written together.
NoContentType == [type |-> "", subtype |-> "", params |-> ""]

ContentTypes ==
    { [type |-> "application", subtype |-> "json", params |-> ";charset=utf-8"],
      [type |-> "application", subtype |-> "x-www-form-urlencoded", params |-> ";charset=utf-8"],
      [type |-> "text", subtype |-> "plain", params |-> ";charset=utf-8"],
      [type |-> "text", subtype |-> "csv", params |-> ""],
      [type |-> "application", subtype |-> "x-custom", params |-> ""] }

headerValue(ct) == ct.type \o "/" \o ct.subtype \o ct.params

\* Request bodies: the bytes, and the fields a decoder of their syntax
\* yields (a JSON object's fields are values, a form's are lists of strings).
NoBody == [raw |-> "", syntax |-> "none", fields |-> <<>>]

JSONBody ==
    [raw |-> "{\"hello\":\"world\"}", syntax |-> "json",
     fields |-> ("hello" :> Scalar("world"))]

FormBody ==
    [raw |-> "hello=world", syntax |-> "form", fields |-> ("hello" :> <<"world">>)]

FormBodyTwice ==
    [raw |-> "hello=a&hello=b", syntax |-> "form", fields |-> ("hello" :> <<"a", "b">>)]

Bodies == {NoBody, JSONBody, FormBody, FormBodyTwice}

\* Query strings and headers other than Content-Type: name to values.
Queries ==
    { <<>>, ("aaa" :> <<"bbb">>), ("aaa" :> <<"b1", "b2">>),
      ("aaa" :> <<"bbb">>) @@ ("ccc" :> <<"ddd">>) }

ExtraHeaders ==
    { <<>>, ("X-Request-Id" :> <<"r1">>), ("Accept-Language" :> <<"en", "de">>) }

\* The maps a caller passes: empty, or with an entry of its own.
Seeds == { <<>>, ("trace" :> Scalar("t0")) }

\* A JSON or form Content-Type comes with a body of that syntax or none.
WellFormed(req) ==
    /\ req.ctype.subtype = "json" => req.body.syntax \in {"none", "json"}
    /\ req.ctype.subtype = "x-www-form-urlencoded" => req.body.syntax \in {"none", "form"}

Requests ==
    {req \in [query : Queries, extra : ExtraHeaders,
              ctype : ContentTypes \cup {NoContentType}, body : Bodies] :
        WellFormed(req)}

\* req.Header
Header(req) ==
    IF req.ctype = NoContentType THEN req.extra
    ELSE ("Content-Type" :> <<headerValue(req.ctype)>>) @@ req.extra

\* A header name lower-cased, its dashes turned into underscores.
headerKey(name) ==
    CASE name = "Content-Type" -> "content_type"
      [] name = "X-Request-Id" -> "x_request_id"
      [] name = "Accept-Language" -> "accept_language"

ErrUnsupportedContentType == "UnsupportedContentType"

\* The entries prefix<key> -> flattenSlice(values) for the fields of src.
withPrefix(prefix, src) ==
    [key \in {prefix \o k : k \in DOMAIN src} |->
        flattenSlice(src[CHOOSE k \in DOMAIN src : prefix \o k = key])]

\* Mutant: the query parameters go in under their query_ keys only.
queryStepPrefixedOnly(m, q) == withPrefix("query_", q) @@ m

\* The query parameters go into the map under query_<key> and, as the
\* expected maps of TestFlattenRequest have it, under <key> as well.
queryStep(m, q) == withPrefix("query_", q) @@ withPrefix("", q) @@ m

headerStep(m, h) ==
    [key \in {"header_" \o headerKey(k) : k \in DOMAIN h} |->
        flattenSlice(h[CHOOSE k \in DOMAIN h : "header_" \o headerKey(k) = key])] @@ m

\* The body, by the type of its Content-Type.
bodyStep(m, req) ==
    IF req.body.raw = "" THEN [m |-> m, err |-> NoErr]
    ELSE CASE req.ctype.type = "application" /\ req.ctype.subtype = "json" ->
                [m |-> req.body.fields @@ m, err |-> NoErr]
           [] req.ctype.type = "application" /\ req.ctype.subtype = "x-www-form-urlencoded" ->
                [m |-> withPrefix("", req.body.fields) @@ m, err |-> NoErr]
           [] req.ctype.type = "text" ->
                [m |-> ("text" :> Scalar(req.body.raw)) @@ m, err |-> NoErr]
           [] OTHER -> [m |-> m, err |-> ErrUnsupportedContentType]

\* Mutant: a call that fails leaves the map as it was passed.
flattenRequestRollback(m, req) ==
    LET out == bodyStep(headerStep(queryStep(m, req.query), Header(req)), req)
    IN  IF out.err = NoErr THEN out ELSE [m |-> m, err |-> out.err]

\* flattenRequest(m, req): the map after the call and the error returned.
flattenRequest(m, req) ==
    bodyStep(headerStep(queryStep(m, req.query), Header(req)), req)

\* The calls of flattenRequest tried.
Calls == [pc : {"call"}, req : Requests, arg : Seeds, m : {<<>>}, err : {NoErr}]

InitFlatten ==
    /\ New([concurrency |-> DefaultConcurrency, readinessCascade |-> DefaultReadinessCascade])
    /\ flat \in {c \in Calls : c.m = c.arg}

FlattenRequest ==
    /\ flat.pc = "call"
    /\ LET out == flattenRequest(flat.arg, flat.req)
       IN  flat' = [flat EXCEPT !.pc = "done", !.m = out.m, !.err = out.err]
    /\ UNCHANGED <<opts, checkers, mux, cc, readinessFailed, task, readyLog>>

NextFlatten == FlattenRequest

SpecFlatten == InitFlatten /\ [][NextFlatten]_vars

\* The calls of TestFlattenRequest give the maps it expects.
TestFlattenRequest ==
    LET q  == ("aaa" :> <<"bbb">>)
        ct(i) == CHOOSE c \in ContentTypes :
                    c.subtype = <<"json", "x-www-form-urlencoded", "plain", "x-custom">>[i]
        rq(i, b) == [query |-> q, extra |-> <<>>, ctype |-> ct(i), body |-> b]
        base(i) == ("aaa" :> Scalar("bbb")) @@ ("query_aaa" :> Scalar("bbb"))
                   @@ ("header_content_type" :> Scalar(headerValue(ct(i))))
    IN  /\ flattenRequest(<<>>, [query |-> q, extra |-> <<>>, ctype |-> NoContentType, body |-> NoBody])
             = [m |-> ("aaa" :> Scalar("bbb")) @@ ("query_aaa" :> Scalar("bbb")), err |-> NoErr]
        /\ flattenRequest(<<>>, rq(1, JSONBody))
             = [m |-> base(1) @@ ("hello" :> Scalar("world")), err |-> NoErr]
        /\ flattenRequest(<<>>, rq(2, FormBody))
             = [m |-> base(2) @@ ("hello" :> Scalar("world")), err |-> NoErr]
        /\ flattenRequest(<<>>, rq(3, FormBody))
             = [m |-> base(3) @@ ("text" :> Scalar("hello=world")), err |-> NoErr]
        /\ flattenRequest(<<>>, rq(4, FormBody)).err # NoErr

Next ==
    \/ \E name \in CheckNames : CheckFunc(name)
    \/ \E pattern \in Patterns : HandleFunc(pattern)
    \/ \E t \in Reqs, p \in Paths : ServeAlive(t, p)
    \/ \E t \in Reqs, p \in Paths : ServeReady(t, p)
    \/ \E t \in Reqs : ReadyRespond(t)
    \/ \E t \in Reqs, p \in Paths : ServeMetrics(t, p)
    \/ \E t \in Reqs, p \in Paths : ServeHTTP(t, p)
    \/ \E t \in Reqs : Acquire(t)
    \/ \E t \in Reqs, panics \in BOOLEAN : Handler(t, panics)
    \/ \E t \in Reqs, panics \in BOOLEAN : Perform(t, panics)
    \/ \E t \in Reqs : Release(t)
    \/ \E t \in Reqs : Cancel(t)
    \/ \E t \in Reqs : Return(t)

Spec == Init /\ [][Next]_vars

SpecCascade == InitCascade /\ [][Next]_vars

SpecThreshold == InitThreshold /\ [][Next]_vars

\* The health registry on its own: checks are registered under several
\* names and one client asks for the readiness report again and again.
RegistryNames == {"db", "mq", "fs"}

Prober == CHOOSE t \in Reqs : TRUE

NextRegistry ==
    \/ \E name \in RegistryNames : CheckFunc(name)
    \/ ServeReady(Prober, DebugPathReady)
    \/ ReadyRespond(Prober)
    \/ Return(Prober)

SpecRegistry == Init /\ [][NextRegistry]_vars

\* Scheduling. A handler that was admitted finishes: fn, Perform and the
\* deferred send each run once they can (weak fairness). A goroutine
\* blocked in <-a.cc is served when tokens keep arriving: the runtime parks
\* blocked receivers on the channel in arrival order and a send hands its
\* value to the first of them, so no receiver is passed over for ever
\* (strong fairness of the receive).
Fairness ==
    \A t \in Reqs :
        /\ WF_vars(\E panics \in BOOLEAN : Handler(t, panics))
        /\ WF_vars(\E panics \in BOOLEAN : Perform(t, panics))
        /\ WF_vars(Release(t))
        /\ SF_vars(Acquire(t))

\* New(cf, WithConcurrency(c)) for the pool sizes the tasks can exhaust.
InitFair ==
    /\ \E c \in {k \in ConcurrencyOpts : k > 0} :
          New([concurrency |-> c, readinessCascade |-> DefaultReadinessCascade])
    /\ flat = NoCall

\* The steps of requests through the gate, with the liveness and metrics
\* probes that pass it by; the readiness registry plays no part in
\* admission and is left at rest.
NextGate ==
    \/ \E pattern \in Patterns : HandleFunc(pattern)
    \/ \E t \in Reqs, p \in Paths : ServeAlive(t, p)
    \/ \E t \in Reqs, p \in Paths : ServeMetrics(t, p)
    \/ \E t \in Reqs, p \in Paths : ServeHTTP(t, p)
    \/ \E t \in Reqs : Acquire(t)
    \/ \E t \in Reqs, panics \in BOOLEAN : Handler(t, panics)
    \/ \E t \in Reqs, panics \in BOOLEAN : Perform(t, panics)
    \/ \E t \in Reqs : Release(t)
    \/ \E t \in Reqs : Cancel(t)
    \/ \E t \in Reqs : Return(t)

SpecFair == InitFair /\ [][NextGate]_vars /\ Fairness

\* ================================================================== claims
\* The diagnostics paths, named one by one.
Diagnostics == {DebugPathAlive, DebugPathReady, DebugPathMetrics}

\* The tasks past the admission gate whose permit is not yet returned: in
\* fn(c), in c.Perform(), or unwinding towards ServeHTTP's deferred send.
Active == {t \in Reqs : task[t].pc \in {"handler", "perform", "unwind"}}

Holders == {t \in Reqs : task[t].held}

Full == <<"construct", "invoke", "finalize">>

\* C1: with concurrency C > 0, in every reachable state at most C requests
\* for non-diagnostics paths are past the admission gate and not yet through
\* with the wrapped handler.
C1_AtMostCActive ==
    opts.concurrency > 0 =>
        /\ Cardinality(Active) <= opts.concurrency
        /\ \A t \in Active : task[t].path \notin Diagnostics

\* C1 witness: the pool is used up by requests in their handlers while
\* another request stands at the gate.
C1_Witness ==
    /\ opts.concurrency > 0
    /\ Cardinality(Active) = opts.concurrency
    /\ \E t \in Reqs : task[t].pc = "wait"

\* C2: a request for a diagnostics path is served by the debug handlers
\* without taking or waiting for a permit: it never stands at the gate and
\* never holds a permit, a task free to take it can be served in every
\* reachable state (also with all permits held), and no step of such a
\* request changes the permit pool.
C2_DiagnosticsBypass ==
    /\ [](\A t \in Reqs :
            /\ task[t].path \in Diagnostics =>
                 /\ task[t].pc \in {"ready", "done"}
                 /\ ~task[t].held
                 /\ task[t].trace = <<>>
                 /\ task[t].pc = "done" => task[t].resp.status \in {StatusOK, StatusInternalServerError}
            /\ task[t].pc = "idle" =>
                 /\ ENABLED ServeAlive(t, DebugPathAlive)
                 /\ ENABLED ServeMetrics(t, DebugPathMetrics)
                 /\ ENABLED ServeReady(t, DebugPathReady))
    /\ [][\A t \in Reqs :
            (task'[t] # task[t] /\ task'[t].path \in Diagnostics) => cc' = cc]_vars

\* C2 witness: every permit is held by a request in flight and a diagnostics
\* request has been answered.
C2_Witness ==
    /\ opts.concurrency > 0
    /\ cc.len = 0
    /\ Cardinality(Holders) = opts.concurrency
    /\ \E t \in Reqs : /\ task[t].path \in Diagnostics
                       /\ task[t].pc = "done"
                       /\ task[t].resp.status = StatusOK

\* C3: with concurrency C > 0, in every reachable state the permits in the
\* pool plus the permits held by requests in flight are C.
C3_PermitConservation ==
    opts.concurrency > 0 =>
        /\ ~cc.nil
        /\ cc.len + Cardinality(Holders) = opts.concurrency

\* C3 witness: a handler has failed, its request is over, and another
\* request holds a permit.
C3_Witness ==
    /\ opts.concurrency > 0
    /\ \E t \in Reqs : task[t].pc = "done" /\ task[t].panicking
    /\ \E t \in Reqs : task[t].held

\* C4: a permit taken by a request is back in the pool on every way out of
\* the wrapped handler, a panic included: a request that is over holds
\* none, and with no request between the gate and its release the pool
\* holds C permits.
C4_NoPermitLeak ==
    opts.concurrency > 0 =>
        /\ \A t \in Reqs : task[t].pc \in {"idle", "wait", "done"} => ~task[t].held
        /\ Active = {} => cc.len = opts.concurrency

\* C4 witness: a request whose handler panicked is over and the pool is full
\* again.
C4_Witness ==
    /\ opts.concurrency > 0
    /\ Active = {}
    /\ cc.len = opts.concurrency
    /\ \E t \in Reqs : /\ task[t].pc = "done"
                       /\ task[t].panicking
                       /\ task[t].trace # <<>>

\* C5: a request dispatched on a registered pattern sees construct, then
\* invoke, then finalize, and finalize exactly once, whether the handler
\* returns or panics: the events so far are construct, invoke while the
\* handler or Perform is pending, and all three once Perform has run.
C5_FinalizeOnce ==
    \A t \in Reqs :
        /\ task[t].pc \in {"idle", "wait", "ready"} => task[t].trace = <<>>
        /\ task[t].pc \in {"handler", "perform"} => task[t].trace = <<"construct", "invoke">>
        /\ task[t].pc \in {"unwind", "done"} =>
             task[t].trace = IF task[t].path \in Diagnostics
                                \/ task[t].resp.status = StatusNotFound
                             THEN <<>> ELSE Full

\* C5 witness: a request whose handler panicked is over, after construct,
\* invoke and one finalize.
C5_Witness ==
    \E t \in Reqs : /\ task[t].pc = "done"
                    /\ task[t].panicking
                    /\ task[t].trace = Full

\* A step in which task t is served the liveness probe.
AliveProbe(t) ==
    /\ task[t].pc = "idle"
    /\ task'[t].pc = "done"
    /\ task'[t].path = DebugPathAlive

Cascaded == [status |-> StatusInternalServerError, body |-> <<"CASCADED">>]

Healthy == [status |-> StatusOK, body |-> <<"OK">>]

\* C6: for every K >= 0, after K consecutive failed readiness evaluations
\* followed by one successful one the cascade counter is 0.
C6_ResetAfterSuccess ==
    \A K \in 0..MaxLog :
        ( /\ Len(readyLog) = K + 1
          /\ \A i \in 1..K : readyLog[i]
          /\ ~readyLog[K + 1] ) => readinessFailed = 0

\* C6 witness: two failed evaluations and then a successful one have
\* updated the counter.
C6_Witness ==
    /\ readyLog = <<TRUE, TRUE, FALSE>>
    /\ readinessFailed = 0

\* C7 as claimed: for every K >= 1, a liveness probe served after K
\* consecutive failed readiness evaluations with readinessCascade = K - 1
\* answers 500 CASCADED.
C7_CascadedAfterK ==
    [][\A t \in Reqs : \A K \in 1..MaxLog :
          ( /\ AliveProbe(t)
            /\ TrailingFails(readyLog) = K
            /\ opts.readinessCascade = K - 1 ) => task'[t].resp = Cascaded]_vars

\* C7 amended: the same for every K >= 2, that is with a threshold K - 1 that
\* is positive.
C7_CascadedAfterK2 ==
    [][\A t \in Reqs : \A K \in 2..MaxLog :
          ( /\ AliveProbe(t)
            /\ TrailingFails(readyLog) = K
            /\ opts.readinessCascade = K - 1 ) => task'[t].resp = Cascaded]_vars

\* C7 witness: with threshold K - 1 > 0 the counter stands at K consecutive
\* failures and a liveness probe has been answered CASCADED.
C7_Witness ==
    /\ opts.readinessCascade > 0
    /\ TrailingFails(readyLog) = opts.readinessCascade + 1
    /\ \E t \in Reqs : /\ task[t].pc = "done"
                       /\ task[t].path = DebugPathAlive
                       /\ task[t].resp = Cascaded

\* C8: with readinessCascade zero or negative every liveness probe answers
\* 200 OK, however many readiness evaluations have failed.
C8_NoCascadeWhenDisabled ==
    opts.readinessCascade <= 0 =>
        \A t \in Reqs :
            (task[t].pc = "done" /\ task[t].path = DebugPathAlive) => task[t].resp = Healthy

\* C8 witness: cascading is disabled, the counter stands at MaxLog failures
\* with no evaluation in flight, and every task has been answered a liveness
\* probe (the task that made the last failure was served its probe after it).
C8_Witness ==
    /\ opts.readinessCascade <= 0
    /\ readinessFailed = MaxLog
    /\ \A t \in Reqs : /\ task[t].pc = "done"
                       /\ task[t].path = DebugPathAlive
                       /\ task[t].resp = Healthy

\* C9: a readiness evaluation answers 200 exactly when none of the checks it
\* ran returned an error and 500 otherwise; one that failed makes the
\* counter one larger, one that passed makes it zero.
C9_ReadyStatusAndCount ==
    [][\A t \in Reqs :
          (task[t].pc = "ready" /\ task'[t].pc = "done") =>
              IF AnyErr(task[t].ready.run)
              THEN /\ task'[t].resp.status = StatusInternalServerError
                   /\ readinessFailed' = readinessFailed + 1
              ELSE /\ task'[t].resp.status = StatusOK
                   /\ readinessFailed' = 0]_vars

\* C9 witness: a failed evaluation has been answered 500 on top of an
\* earlier failure.
C9_Witness ==
    /\ readinessFailed = 2
    /\ \E t \in Reqs : /\ task[t].pc = "done"
                       /\ task[t].path = DebugPathReady
                       /\ AnyErr(task[t].ready.run)
                       /\ task[t].resp.status = StatusInternalServerError

\* C10: a request whose context is cancelled while it waits for a permit
\* gives up the wait: it never takes a permit and its handler never runs.
C10_CancelledWaiterGivesUp ==
    \A t \in Reqs :
        task[t].ctxDone => /\ ~task[t].held
                           /\ task[t].pc \notin {"handler", "perform", "unwind"}
                           /\ task[t].trace = <<>>

\* C11: with concurrency C > 0 and every admitted handler finishing, a
\* request that waits for a permit is admitted in the end: it does not wait
\* for ever while permits are released and taken by others.
C11_WaiterAdmitted ==
    \A t \in Reqs :
        (opts.concurrency > 0 /\ task[t].pc = "wait") ~> task[t].held

\* C11 witness: a request stands at the gate while the pool is empty and
\* all permits are with requests in their handlers.
C11_Witness ==
    /\ opts.concurrency > 0
    /\ cc.len = 0
    /\ \E t \in Reqs : task[t].pc = "wait" /\ ~task[t].ctxDone
    /\ \E t \in Reqs : task[t].pc = "handler" /\ task[t].held

\* C12: with concurrency zero or negative no pool is made and admission
\* never blocks: a.cc is nil, no request ever stands at the gate or holds a
\* permit, a free task can be dispatched in every reachable state however
\* many requests are in their handlers, and no step takes or returns a
\* permit.
C12_NoPoolNoGate ==
    /\ [](opts.concurrency <= 0 =>
            /\ cc.nil
            /\ \A t \in Reqs :
                  /\ task[t].pc # "wait"
                  /\ ~task[t].held
                  /\ ~ENABLED Acquire(t)
                  /\ task[t].pc = "idle" => ENABLED ServeHTTP(t, PatternApi))
    /\ [][opts.concurrency <= 0 =>
            /\ cc' = cc
            /\ \A t \in Reqs :
                  (task[t].pc = "idle" /\ task'[t].path \notin Diagnostics
                   /\ task'[t] # task[t]) => task'[t].pc \in {"handler", "unwind"}]_vars

\* C12 witness: no pool, and every task is in its handler at the same time,
\* none holding a permit.
C12_Witness ==
    /\ opts.concurrency <= 0
    /\ cc.nil
    /\ \A t \in Reqs : /\ task[t].pc = "handler"
                       /\ ~task[t].held
                       /\ task[t].trace = <<"construct", "invoke">>

\* The report expected for a pass over a registry that is not empty: for the
\* i-th check its name, ": " and "OK" or the error text, with "\n" between
\* one line and the next.
ReportLines(run) ==
    [j \in 1..(4 * Len(run) - 1) |->
        LET i == (j + 3) \div 4
            c == j - 4 * (i - 1)
        IN  CASE c = 1 -> run[i].k
              [] c = 2 -> ": "
              [] c = 3 -> IF run[i].err = NoErr THEN "OK" ELSE run[i].err
              [] c = 4 -> "\n"]

\* C13: executeCheckers runs every registered check, a failed one not
\* stopping the rest; failed is true exactly when at least one check
\* returned an error; the report is never empty: one line per registered
\* check, "name: OK" or "name: <error text>", or "OK" for an empty
\* registry.
C13_ReportEveryCheck ==
    [][\A t \in Reqs :
          (task[t].pc = "idle" /\ task'[t].pc = "ready") =>
              LET rd  == task'[t].ready
                  run == rd.run
              IN  /\ {run[i].k : i \in DOMAIN run} = checkers
                  /\ Len(run) = Cardinality(checkers)
                  /\ rd.failed = AnyErr(run)
                  /\ rd.r # <<>>
                  /\ rd.r = IF checkers = {} THEN <<"OK">> ELSE ReportLines(run)]_vars

\* C13 witness: three checks are registered, the first one visited failed,
\* the second passed, the third failed, and the report has a line for each.
C13_Witness ==
    LET rd == task[Prober].ready
    IN  /\ task[Prober].pc = "ready"
        /\ checkers = RegistryNames
        /\ Len(rd.run) = 3
        /\ rd.run[1].err # NoErr
        /\ rd.run[2].err = NoErr
        /\ rd.run[3].err # NoErr
        /\ rd.failed
        /\ Len(rd.r) = 11

\* A Content-Type of one of the families the normalizer knows.
Recognized(ct) ==
    \/ ct.type = "application" /\ ct.subtype \in {"json", "x-www-form-urlencoded"}
    \/ ct.type = "text"

\* What a field with the values vs flattens to.
Flattened(vs) == IF Len(vs) = 1 THEN Scalar(vs[1]) ELSE List(vs)

\* C14: normalizing a request with a body that is not empty and a
\* Content-Type that is none of JSON, form-urlencoded and text/* fails with
\* UnsupportedContentType, and the map keeps the query_ and header_ entries
\* put in before the body was looked at, and gets no entry from the body.
C14_UnsupportedKeepsEntries ==
    ( /\ flat.pc = "done"
      /\ flat.req.body.raw # ""
      /\ flat.req.ctype # NoContentType
      /\ ~Recognized(flat.req.ctype) ) =>
        /\ flat.err = ErrUnsupportedContentType
        /\ \A k \in DOMAIN flat.req.query :
              /\ ("query_" \o k) \in DOMAIN flat.m
              /\ flat.m["query_" \o k] = Flattened(flat.req.query[k])
        /\ "header_content_type" \in DOMAIN flat.m
        /\ flat.m["header_content_type"] = Scalar(headerValue(flat.req.ctype))
        /\ \A h \in DOMAIN flat.req.extra :
              /\ ("header_" \o headerKey(h)) \in DOMAIN flat.m
              /\ flat.m["header_" \o headerKey(h)] = Flattened(flat.req.extra[h])
        /\ \A k \in DOMAIN flat.arg :
              k \in DOMAIN flat.m /\ flat.m[k] = flat.arg[k]
        /\ DOMAIN flat.m \cap {"hello", "text"} = {}

\* C14 witness: the call with body hello=world, Content-Type
\* application/x-custom and query aaa=bbb has failed, and the map has the
\* query and header entries.
C14_Witness ==
    /\ flat.pc = "done"
    /\ flat.req.body = FormBody
    /\ flat.req.ctype.subtype = "x-custom"
    /\ flat.req.query = ("aaa" :> <<"bbb">>)
    /\ flat.arg = <<>>
    /\ flat.err = ErrUnsupportedContentType
    /\ {"query_aaa", "header_content_type"} \subseteq DOMAIN flat.m

\* The call of the first case of TestFlattenRequest: GET /get?aaa=bbb, no
\* body, no header, into an empty map.
GetAaaBbb ==
    /\ flat.req = [query |-> ("aaa" :> <<"bbb">>), extra |-> <<>>,
                   ctype |-> NoContentType, body |-> NoBody]
    /\ flat.arg = <<>>

\* C15 as claimed: that call gives exactly the map {"query_aaa": "bbb"}:
\* the query parameter is under its query_ key only.
C15_QueryPrefixedOnly ==
    (flat.pc = "done" /\ GetAaaBbb) =>
        /\ flat.err = NoErr
        /\ flat.m = ("query_aaa" :> Scalar("bbb"))

\* C15 amended: that call gives exactly the map {"aaa": "bbb",
\* "query_aaa": "bbb"}: the query parameter is under its query_ key and under
\* its own name as well.
C15_QueryPrefixedAndBare ==
    (flat.pc = "done" /\ GetAaaBbb) =>
        /\ flat.err = NoErr
        /\ flat.m = ("aaa" :> Scalar("bbb")) @@ ("query_aaa" :> Scalar("bbb"))

\* C15 witness: that call has returned, with an entry for query_aaa.
C15_Witness ==
    /\ flat.pc = "done"
    /\ GetAaaBbb
    /\ "query_aaa" \in DOMAIN flat.m
    /\ flat.m["query_aaa"] = Scalar("bbb")

\* C16: the counter loses no increment under concurrent readiness
\* evaluations: in every reachable state, with evaluations in flight or not,
\* it is the number of failing updates made since the last passing one (or
\* since the start), so F failing updates from a counter of n leave n + F.
C16_NoLostIncrement ==
    /\ [](readinessFailed = TrailingFails(readyLog))
    /\ [][\A t \in Reqs :
            (task[t].pc = "ready" /\ task'[t].pc = "done" /\ task[t].ready.failed) =>
                /\ readinessFailed' = readinessFailed + 1
                /\ TrailingFails(readyLog') = TrailingFails(readyLog) + 1]_vars

\* C16 witness: every task has made a failing update, none a passing one,
\* and the counter stands at their number.
C16_Witness ==
    /\ readinessFailed = NumReqs
    /\ Len(readyLog) = NumReqs
    /\ \A t \in Reqs : /\ task[t].pc = "done"
                       /\ task[t].path = DebugPathReady
                       /\ task[t].ready.failed

\* C17: with readinessCascade = N > 0 a liveness probe answers CASCADED
\* exactly when the counter is larger than N: it answers OK after exactly N
\* consecutive failed readiness evaluations and CASCADED after N + 1 (with
\* the default N = 5: OK after 5, CASCADED after 6).
C17_CascadedIffAbove ==
    [][\A t \in Reqs :
          (AliveProbe(t) /\ opts.readinessCascade > 0) =>
              LET N == opts.readinessCascade
              IN  /\ task'[t].resp = Cascaded <=> readinessFailed > N
                  /\ task'[t].resp = Healthy <=> readinessFailed <= N
                  /\ TrailingFails(readyLog) = N => task'[t].resp = Healthy
                  /\ TrailingFails(readyLog) = N + 1 => task'[t].resp = Cascaded]_vars

\* C17 witness: with the default threshold of 5 the counter stands at 6
\* consecutive failures, a probe served before the sixth was answered OK
\* and one served after it CASCADED.
C17_Witness ==
    /\ opts.readinessCascade = DefaultReadinessCascade
    /\ TrailingFails(readyLog) = DefaultReadinessCascade + 1
    /\ readinessFailed = DefaultReadinessCascade + 1
    /\ \E t \in Reqs : /\ task[t].pc = "done"
                       /\ task[t].path = DebugPathAlive
                       /\ task[t].resp = Cascaded
    /\ \E t \in Reqs : /\ task[t].pc = "done"
                       /\ task[t].path = DebugPathAlive
                       /\ task[t].resp = Healthy

\* C18: the cascaded state is not latched: a passing readiness evaluation
\* made while the liveness probe would answer CASCADED sets the counter to
\* 0, a probe served when the latest update was a passing one answers OK,
\* and so does every probe served while the counter is at most the
\* threshold.
C18_NotLatched ==
    [][\A t \in Reqs :
          /\ ( /\ task[t].pc = "ready"
               /\ task'[t].pc = "done"
               /\ ~AnyErr(task[t].ready.run)
               /\ opts.readinessCascade > 0
               /\ readinessFailed > opts.readinessCascade ) => readinessFailed' = 0
          /\ ( /\ AliveProbe(t)
               /\ readyLog # <<>>
               /\ ~readyLog[Len(readyLog)] ) => task'[t].resp = Healthy
          /\ ( /\ AliveProbe(t)
               /\ readinessFailed <= opts.readinessCascade ) => task'[t].resp = Healthy]_vars

\* C18 witness: more failures than the threshold were followed by a passing
\* evaluation, the counter is 0, and every task has since been answered OK
\* by the liveness probe.
C18_Witness ==
    /\ opts.readinessCascade > 0
    /\ Len(readyLog) > opts.readinessCascade + 1
    /\ ~readyLog[Len(readyLog)]
    /\ \A i \in 1..(Len(readyLog) - 1) : readyLog[i]
    /\ readinessFailed = 0
    /\ \A t \in Reqs : /\ task[t].pc = "done"
                       /\ task[t].path = DebugPathAlive
                       /\ task[t].resp = Healthy

\* C19: returning a permit never blocks: in every reachable state in which
\* a request is about to send its permit back, the pool holds fewer than C
\* tokens, so the send into the channel of capacity C can complete at once.
C19_ReleaseNeverBlocks ==
    \A t \in Reqs :
        (task[t].pc = "unwind" /\ task[t].held) =>
            /\ ~cc.nil
            /\ cc.cap = opts.concurrency
            /\ cc.len < cc.cap
            /\ ENABLED Release(t)

\* C19 witness: two requests are about to send their permits back at the
\* same time, one of them after a panic, and the pool of capacity above one
\* has room for both.
C19_Witness ==
    /\ opts.concurrency > 1
    /\ \E t, u \in Reqs :
          /\ t # u
          /\ task[t].pc = "unwind" /\ task[t].held /\ task[t].panicking
          /\ task[u].pc = "unwind" /\ task[u].held
          /\ cc.len <= cc.cap - 2

====
